---- MODULE Spec2Model ----
(***************************************************************************)
(* Model of swaggerpy/client.py: construction of SwaggerClient, Resource   *)
(* and Operation objects from a resource listing, attribute access on the  *)
(* built objects, and Operation.__call__ (parameter binding, dispatch to   *)
(* the transport, typing of the response).                                 *)
(*                                                                         *)
(* Strings that the code takes apart (URIs, path values) are sequences of  *)
(* tokens: "http://host/pet/{id}" is <<"http", "://", "host", "/pet/",     *)
(* "{id}">>.  str.replace and re.sub act on tokens as they act on the      *)
(* characters of the string.                                               *)
(***************************************************************************)
EXTENDS Integers, Sequences, FiniteSets, TLC

VARIABLES client, constructed, last, wire

vars == <<client, constructed, last, wire>>

----------------------------------------------------------------------------
(* Bounds of the model *)

\* largest number of keyword arguments of one invocation
MaxArgs == 2

\* longest list passed as an argument value
MaxListLen == 2

----------------------------------------------------------------------------
(* Python values passed as keyword arguments *)

None == [t |-> "none", n |-> 0, s |-> <<>>, l |-> <<>>]

PyInt(i) == [t |-> "int", n |-> i, s |-> <<>>, l |-> <<>>]

PyStr(toks) == [t |-> "str", n |-> 0, s |-> toks, l |-> <<>>]

PyList(elems) == [t |-> "list", n |-> 0, s |-> <<>>, l |-> elems]

\* bool(value), as tested by "if value:"
Truthy(v) ==
    CASE v.t = "none" -> FALSE
      [] v.t = "int"  -> v.n # 0
      [] v.t = "str"  -> v.s # <<>>
      [] v.t = "list" -> v.l # <<>>

\* str(x) / unicode(x) of a scalar, as a token sequence
Unicode(v) ==
    CASE v.t = "int"  -> <<ToString(v.n)>>
      [] v.t = "str"  -> v.s
      [] v.t = "none" -> <<"None">>
      [] v.t = "list" -> <<"[...]">>

\* u",".join(str(x) for x in value)
RECURSIVE Join(_)
Join(elems) ==
    IF elems = <<>> THEN <<>>
    ELSE IF Len(elems) = 1 THEN Unicode(elems[1])
    ELSE Unicode(elems[1]) \o <<",">> \o Join(Tail(elems))

\* isinstance(value, list) and paramType in ('path', 'query') => joined string
Collapse(value, paramType) ==
    IF value.t = "list" /\ paramType \in {"path", "query"}
    THEN PyStr(Join(value.l))
    ELSE value

\* u'{%s}' % pname
Placeholder(pname) == "{" \o pname \o "}"

\* uri.replace(old, new): every occurrence of old, left to right
RECURSIVE Replace(_, _, _)
Replace(uri, old, new) ==
    IF uri = <<>> THEN <<>>
    ELSE (IF Head(uri) = old THEN new ELSE <<Head(uri)>>)
         \o Replace(Tail(uri), old, new)

\* re.sub(u'^http', u"ws", uri): only a match at the start of the string
ReSubHttp(uri) ==
    IF uri # <<>> /\ Head(uri) = "http" THEN <<"ws">> \o Tail(uri) ELSE uri

\* kwargs.get(pname)
KwGet(kwargs, pname) ==
    IF pname \in DOMAIN kwargs THEN kwargs[pname] ELSE None

\* del kwargs[pname]
KwDel(kwargs, pname) == [k \in DOMAIN kwargs \ {pname} |-> kwargs[k]]

----------------------------------------------------------------------------
(* Exceptions *)

NoErr == [exc |-> "none", msg |-> "", names |-> {}, owner |-> ""]

\* TypeError(u"Missing required parameter '%s' for '%s'" % (pname, nickname))
MissingRequiredParameter(pname, nickname) ==
    [exc |-> "TypeError", msg |-> "Missing required parameter '%s' for '%s'",
     names |-> {pname}, owner |-> nickname]

\* TypeError(u"'%s' does not have parameters %r" % (nickname, kwargs.keys()))
UnexpectedParameter(names, nickname) ==
    [exc |-> "TypeError", msg |-> "'%s' does not have parameters %r",
     names |-> names, owner |-> nickname]

\* "raise AssertionError(u"Unsupported paramType %s" % param.paramType)":
\* param is a dict, so evaluating param.paramType raises AttributeError
\* before the AssertionError is built.
UnsupportedParamType(param) ==
    [exc |-> "AttributeError",
     msg |-> "'dict' object has no attribute 'paramType'",
     names |-> {}, owner |-> ""]

\* AttributeError(u"Resource '%s' has no operation '%s'" % (name, item))
NoOperation(resname, item) ==
    [exc |-> "AttributeError", msg |-> "Resource '%s' has no operation '%s'",
     names |-> {item}, owner |-> resname]

\* AttributeError(u"API has no resource '%s'" % item)
NoResource(item) ==
    [exc |-> "AttributeError", msg |-> "API has no resource '%s'",
     names |-> {item}, owner |-> ""]

----------------------------------------------------------------------------
(* Operation.__call__: parameter binding *)

\* the locals of __call__ before the loop
BindInit(self, kwargs) ==
    [uri |-> self._uri, params |-> <<>>, data |-> None, headers |-> None,
     kwargs |-> kwargs, err |-> NoErr]

\* paramType == u'path'
BindPath(st, pname, value) ==
    [st EXCEPT !.uri = Replace(@, Placeholder(pname), Unicode(value))]

\* paramType == u'query'
BindQuery(st, pname, value) ==
    [st EXCEPT !.params = (pname :> value) @@ @]

\* a body binding that forgets the content-type header
BindBody_NoHeaders(st, pname, value) ==
    [st EXCEPT !.data = value]

\* paramType == u'body'
BindBody(st, pname, value) ==
    [st EXCEPT !.data = value,
               !.headers = ("content-type" :> "application/json")]

\* an else-branch that lets a missing required parameter through
BindAbsent_NoCheck(st, param, nickname) == st

\* the else-branch of "if value:"
BindAbsent(st, param, nickname) ==
    IF param.required
    THEN [st EXCEPT !.err = MissingRequiredParameter(param.name, nickname)]
    ELSE st

\* one iteration of "for param in self._json.get(u'parameters', [])"
BindParam(st, param, nickname) ==
    LET pname == param.name
        paramType == param.paramType
        value == Collapse(KwGet(st.kwargs, pname), paramType)
    IN  IF Truthy(value)
        THEN IF paramType \in {"path", "query", "body"}
             THEN LET bound == CASE paramType = "path"  -> BindPath(st, pname, value)
                                 [] paramType = "query" -> BindQuery(st, pname, value)
                                 [] paramType = "body"  -> BindBody(st, pname, value)
                  IN  [bound EXCEPT !.kwargs = KwDel(@, pname)]
             ELSE [st EXCEPT !.err = UnsupportedParamType(param)]
        ELSE BindAbsent(st, param, nickname)

\* the whole loop; a raise ends it
RECURSIVE BindLoop(_, _, _)
BindLoop(st, parameters, nickname) ==
    IF parameters = <<>> \/ st.err # NoErr THEN st
    ELSE BindLoop(BindParam(st, Head(parameters), nickname),
                  Tail(parameters), nickname)

\* a check that accepts leftover arguments
CheckLeftover_Ignore(st, nickname) == st

\* "if kwargs: raise TypeError(...)" after the loop
CheckLeftover(st, nickname) ==
    IF st.err = NoErr /\ DOMAIN st.kwargs # {}
    THEN [st EXCEPT !.err = UnexpectedParameter(DOMAIN st.kwargs, nickname)]
    ELSE st

Bind(self, kwargs) ==
    CheckLeftover(
        BindLoop(BindInit(self, kwargs), self._json.parameters,
                 self._json.nickname),
        self._json.nickname)


----------------------------------------------------------------------------
(* Operation.__call__: dispatch and typing of the response *)

\* a dispatch that always takes the plain request entry point
Dispatch_AlwaysRequest(self, st) ==
    [entry |-> "request", client |-> self._http_client,
     method |-> self._json.method, uri |-> st.uri, params |-> st.params,
     data |-> st.data, headers |-> st.headers]

\* the call made on self._http_client
Dispatch(self, st) ==
    IF self._json.is_websocket
    THEN [entry |-> "ws_connect", client |-> self._http_client,
          uri |-> ReSubHttp(st.uri), params |-> st.params]
    ELSE [entry |-> "request", client |-> self._http_client,
          method |-> self._json.method, uri |-> st.uri, params |-> st.params,
          data |-> st.data, headers |-> st.headers]

\* SwaggerResponse(response.json(), _type, self._models).parse_object()
ParseObject(json, type, models) ==
    [t |-> "typed", json |-> json, type |-> type, models |-> models]

\* the parse calls made when every successful response is parsed
ParseCalls_IgnoreText(self, response) ==
    IF response.ok
    THEN <<[json |-> response.text, type |-> self._json.type,
            models |-> self._models]>>
    ELSE <<>>

\* the parse calls made for a response:
\* "if self._http_client.is_response_ok(response) and response.text:"
ParseCalls(self, response) ==
    IF response.ok /\ response.text # ""
    THEN <<[json |-> response.text, type |-> self._json.type,
            models |-> self._models]>>
    ELSE <<>>

\* value = None, or the parsed object; setattr(response, 'value', value)
TypeResponse(self, response) ==
    LET calls == ParseCalls(self, response)
        value == IF calls = <<>> THEN None
                 ELSE ParseObject(calls[1].json, calls[1].type, calls[1].models)
    IN  [ok |-> response.ok, text |-> response.text, value |-> value]

\* an invocation that keeps the bound URI in the Operation
SelfAfterCall_StoreUri(self, st) == [self EXCEPT !._uri = st.uri]

\* the Operation object after __call__: no statement assigns to self
SelfAfterCall(self, st) == self

\* Operation.__call__(**kwargs) with the response the transport gives
OperationCall(self, kwargs, response) ==
    LET st == Bind(self, kwargs)
    IN  IF st.err # NoErr
        THEN [err |-> st.err, calls |-> <<>>, parses |-> <<>>,
              ret |-> None, self |-> SelfAfterCall(self, st)]
        ELSE [err |-> NoErr, calls |-> <<Dispatch(self, st)>>,
              parses |-> ParseCalls(self, response),
              ret |-> TypeResponse(self, response),
              self |-> SelfAfterCall(self, st)]

----------------------------------------------------------------------------
(* Construction *)

\* Operation.__init__
Operation(uri, operation, http_client, models) ==
    [_uri |-> uri, _json |-> operation, _http_client |-> http_client,
     _models |-> models]

\* create_model_type(models_dict[key])
CreateModelType(schema) == [model_type |-> schema]

\* Resource._set_models
SetModels(resource) ==
    LET models_dict == resource.api_declaration.models
    IN  [key \in DOMAIN models_dict |-> CreateModelType(models_dict[key])]

\* Resource._build_operation
BuildOperation(http_client, basePath0, models, decl, api, operation) ==
    LET basePath == IF decl.basePath = <<"/">> THEN basePath0 ELSE decl.basePath
        uri == basePath \o api.path
    IN  Operation(uri, operation, http_client, models)

\* the (nickname, Operation) pairs of
\* "for api in decl['apis'] for oper in api['operations']", in order
RECURSIVE OperationPairs(_, _, _, _, _)
OperationPairs(http_client, basePath, models, decl, apis) ==
    IF apis = <<>> THEN <<>>
    ELSE [i \in 1..Len(Head(apis).operations) |->
            <<Head(apis).operations[i].nickname,
              BuildOperation(http_client, basePath, models, decl, Head(apis),
                             Head(apis).operations[i])>>]
         \o OperationPairs(http_client, basePath, models, decl, Tail(apis))

\* a dict that keeps the first value of a repeated key
RECURSIVE Dict_FirstWins(_)
Dict_FirstWins(pairs) ==
    IF pairs = <<>> THEN <<>>
    ELSE (Head(pairs)[1] :> Head(pairs)[2]) @@ Dict_FirstWins(Tail(pairs))

\* dict(pairs), and repeated d[k] = v: a later pair replaces an earlier one
RECURSIVE Dict(_)
Dict(pairs) ==
    IF pairs = <<>> THEN <<>>
    ELSE Dict(Tail(pairs)) @@ (Head(pairs)[1] :> Head(pairs)[2])

\* Resource.__init__
Resource(resource, http_client, basePath) ==
    LET decl == resource.api_declaration
        models == SetModels(resource)
        operations == Dict(OperationPairs(http_client, basePath, models,
                                          decl, decl.apis))
    IN  [_json |-> resource, _http_client |-> http_client,
         _basePath |-> basePath, models |-> models,
         _operations |-> operations,
         attrs |-> [key \in DOMAIN operations |-> operations[key]]]

\* "if not http_client: http_client = SynchronousHttpClient()"
HttpClientOrDefault(http_client) ==
    IF http_client = "None" THEN "SynchronousHttpClient()" ELSE http_client

\* SwaggerClient.__init__ with an in-memory resource listing
SwaggerClient(url_or_resource, http_client0) ==
    LET http_client == HttpClientOrDefault(http_client0)
        basePath == url_or_resource.basePath
        apis == url_or_resource.apis
        resources == Dict([i \in 1..Len(apis) |->
                            <<apis[i].name,
                              Resource(apis[i], http_client, basePath)>>])
    IN  [_http_client |-> http_client, _api_docs |-> url_or_resource,
         _resources |-> resources,
         attrs |-> [key \in DOMAIN resources |-> resources[key]]]

----------------------------------------------------------------------------
(* Attribute access *)

\* Resource._get_operation: self._operations.get(name)
GetOperation(resource, name) ==
    IF name \in DOMAIN resource._operations
    THEN [found |-> TRUE, obj |-> resource._operations[name], err |-> NoErr]
    ELSE [found |-> FALSE, obj |-> None, err |-> NoErr]

\* Resource._get_name
GetName(resource) == resource._json.name

\* getattr(resource, item): the instance attribute set in __init__, and
\* Resource.__getattr__ when there is none
ResourceGetattr(resource, item) ==
    IF item \in DOMAIN resource.attrs
    THEN [found |-> TRUE, obj |-> resource.attrs[item], err |-> NoErr]
    ELSE LET op == GetOperation(resource, item)
         IN  IF ~op.found
             THEN [op EXCEPT !.err = NoOperation(GetName(resource), item)]
             ELSE op

\* SwaggerClient._get_resource: self._resources.get(name)
GetResource(c, name) ==
    IF name \in DOMAIN c._resources
    THEN [found |-> TRUE, obj |-> c._resources[name], err |-> NoErr]
    ELSE [found |-> FALSE, obj |-> None, err |-> NoErr]

\* getattr(client, item): the instance attribute set in __init__, and
\* SwaggerClient.__getattr__ when there is none
ClientGetattr(c, item) ==
    IF item \in DOMAIN c.attrs
    THEN [found |-> TRUE, obj |-> c.attrs[item], err |-> NoErr]
    ELSE LET resource == GetResource(c, item)
         IN  IF ~resource.found
             THEN [resource EXCEPT !.err = NoResource(item)]
             ELSE resource

----------------------------------------------------------------------------
(* The schemas the client is built from *)

Param(name, paramType, required) ==
    [name |-> name, paramType |-> paramType, required |-> required]

Oper(nickname, method, parameters, is_websocket, type) ==
    [nickname |-> nickname, method |-> method, parameters |-> parameters,
     is_websocket |-> is_websocket, type |-> type]

Api(path, operations) == [path |-> path, operations |-> operations]

getPet == Oper("getPet", "GET", <<Param("id", "path", TRUE)>>, FALSE, "Pet")

getPetHead == Oper("getPet", "HEAD", <<Param("id", "path", TRUE)>>, FALSE, "void")

findPets ==
    Oper("findPets", "GET",
         <<Param("status", "query", FALSE), Param("limit", "query", TRUE)>>,
         FALSE, "array")

addPet ==
    Oper("addPet", "POST",
         <<Param("body", "body", TRUE), Param("tag", "query", FALSE)>>,
         FALSE, "Pet")

getItem ==
    Oper("getItem", "GET",
         <<Param("id", "path", TRUE), Param("item", "path", TRUE)>>,
         FALSE, "Item")

events ==
    Oper("events", "GET",
         <<Param("app", "query", TRUE), Param("msg", "body", FALSE)>>,
         TRUE, "Event")

upload ==
    Oper("upload", "POST",
         <<Param("token", "header", FALSE), Param("limit", "query", TRUE)>>,
         FALSE, "void")

patchPet ==
    Oper("patchPet", "PUT",
         <<Param("old", "body", FALSE), Param("new", "body", FALSE)>>,
         FALSE, "Pet")

ping == Oper("ping", "GET", <<>>, FALSE, "void")

\* the sentinel basePath of a declaration: use the client's base path
RootBasePath == <<"/">>

ListingA ==
    [basePath |-> <<"http", "://", "host">>,
     apis |-> <<
       [name |-> "pet",
        api_declaration |->
          [basePath |-> RootBasePath,
           apis |-> <<Api(<<"/pet/", "{id}">>, <<getPet>>),
                      Api(<<"/pet">>, <<findPets, addPet>>),
                      Api(<<"/events">>, <<events>>)>>,
           models |-> ("Pet" :> "PetSchema")]],
       [name |-> "store",
        api_declaration |->
          [basePath |-> <<"http", "s", "://", "shop">>,
           apis |-> <<Api(<<"/order/", "{id}", "/item/", "{item}">>, <<getItem>>),
                      Api(<<"/upload">>, <<upload>>),
                      Api(<<"/pet">>, <<patchPet, ping>>)>>,
           models |-> ("Item" :> "ItemSchema") @@ ("Order" :> "OrderSchema")]]
     >>]

ListingB ==
    [basePath |-> <<"http", "s", "://", "host">>,
     apis |-> <<
       [name |-> "pet",
        api_declaration |->
          [basePath |-> RootBasePath,
           apis |-> <<Api(<<"/pet">>, <<findPets>>)>>,
           models |-> <<>>]],
       [name |-> "pet",
        api_declaration |->
          [basePath |-> RootBasePath,
           apis |-> <<Api(<<"/pets/", "{id}">>, <<getPetHead>>),
                      Api(<<"/pet/", "{id}">>, <<getPet>>),
                      Api(<<"/events">>, <<events>>)>>,
           models |-> ("Pet" :> "PetSchema")]]
     >>]

Listings == {ListingA, ListingB}

\* the http_client argument of SwaggerClient: omitted, or a client object
HttpClients == {"None", "mock"}

----------------------------------------------------------------------------
(* The inputs of an invocation *)

ListElems == {PyStr(<<"a">>), PyInt(7)}

Lists == UNION {[1..k -> ListElems] : k \in 0..MaxListLen}

Values ==
    {None, PyInt(0), PyInt(42), PyStr(<<>>), PyStr(<<"a">>), PyStr(<<"{item}">>)}
    \cup {PyList(l) : l \in Lists}

Range(f) == {f[i] : i \in DOMAIN f}

DeclaredNames(operation) == {p.name : p \in Range(operation.parameters)}

ArgNames(operation) == DeclaredNames(operation) \cup {"bogus"}

KwargsOf(operation) ==
    UNION {[S -> Values] :
             S \in {T \in SUBSET ArgNames(operation) : Cardinality(T) <= MaxArgs}}

\* what the transport returns: is_response_ok(response), response.text
Responses == [ok : BOOLEAN, text : {"", "payload"}]

NoResponse == [ok |-> FALSE, text |-> "never"]

\* names used in attribute access
ItemNames == {"pet", "store", "getPet", "findPets", "ping", "nope"}

----------------------------------------------------------------------------
(* The state machine *)

Idle == [kind |-> "idle"]

Init ==
    /\ \E listing \in Listings, http_client \in HttpClients :
          client = SwaggerClient(listing, http_client)
    /\ constructed = client
    /\ last = Idle
    /\ wire = <<>>

\* client.<r>.<n>(**kwargs): the attribute accesses and Operation.__call__,
\* with the response the transport gives when the call is dispatched
Call(r, n, kwargs, response) ==
    /\ last = Idle
    /\ LET self == ResourceGetattr(ClientGetattr(client, r).obj, n).obj
           res == OperationCall(self, kwargs, response)
       IN  /\ client' = [client EXCEPT
                           !._resources[r]._operations[n] = res.self]
           /\ wire' = res.calls
           /\ last' = [kind |-> "call", resource |-> r, name |-> n,
                       kwargs |-> kwargs, response |-> response,
                       err |-> res.err, parses |-> res.parses,
                       ret |-> res.ret]
    /\ UNCHANGED constructed

\* client.<r>.<item>
GetattrOfResource(r, item) ==
    /\ last = Idle
    /\ LET got == ResourceGetattr(ClientGetattr(client, r).obj, item)
       IN  last' = [kind |-> "resource_getattr", resource |-> r,
                    name |-> item, found |-> got.found, obj |-> got.obj,
                    err |-> got.err]
    /\ wire' = <<>>
    /\ UNCHANGED <<client, constructed>>

\* client.<item>
GetattrOfClient(item) ==
    /\ last = Idle
    /\ LET got == ClientGetattr(client, item)
       IN  last' = [kind |-> "client_getattr", name |-> item,
                    found |-> got.found, obj |-> got.obj, err |-> got.err]
    /\ wire' = <<>>
    /\ UNCHANGED <<client, constructed>>

\* the caller is done with the result (or the exception) of its last
\* statement and goes on to the next one
Return ==
    /\ last # Idle
    /\ last' = Idle
    /\ wire' = <<>>
    /\ UNCHANGED <<client, constructed>>

\* the responses an invocation can meet: none when binding raises
ResponsesFor(self, kwargs) ==
    IF Bind(self, kwargs).err = NoErr THEN Responses ELSE {NoResponse}

\* a statement starts only when the previous one has returned; the guard
\* stands before the choice of inputs
Next ==
    \/ /\ last = Idle
       /\ \E r \in DOMAIN client.attrs :
            \E n \in DOMAIN client.attrs[r].attrs :
              \E kwargs \in KwargsOf(client.attrs[r].attrs[n]._json) :
                \E response \in ResponsesFor(client.attrs[r].attrs[n], kwargs) :
                  Call(r, n, kwargs, response)
    \/ /\ last = Idle
       /\ \E r \in DOMAIN client.attrs, item \in ItemNames :
            GetattrOfResource(r, item)
    \/ /\ last = Idle
       /\ \E item \in ItemNames : GetattrOfClient(item)
    \/ Return

Spec == Init /\ [][Next]_vars


----------------------------------------------------------------------------
(* Vocabulary of the properties.  They describe the last statement from   *)
(* its inputs (last.kwargs, last.response) and the schema, and compare    *)
(* that with what the code did (last.err, last.ret, wire).                *)

IsCall == last.kind = "call"

\* the invoked Operation, as built at construction
CalledOp == constructed.attrs[last.resource].attrs[last.name]

CalledParams == CalledOp._json.parameters

CalledNickname == CalledOp._json.nickname

Dispatched == wire # <<>>

SupportedParamTypes == {"path", "query", "body"}

\* the caller gave the name a value
Given(k) == k \in DOMAIN last.kwargs /\ last.kwargs[k] # None

\* the values Python takes for false
EmptyValues == {None, PyInt(0), PyStr(<<>>), PyList(<<>>)}

\* the caller gave the name a value that is not empty or zero
Usable(k) == k \in DOMAIN last.kwargs /\ last.kwargs[k] \notin EmptyValues

UndeclaredNames == DOMAIN last.kwargs \ DeclaredNames(CalledOp._json)

\* the declared parameters at which binding stops with an error
FailingParams ==
    {i \in DOMAIN CalledParams :
        \/ CalledParams[i].required /\ ~Usable(CalledParams[i].name)
        \/ /\ CalledParams[i].paramType \notin SupportedParamTypes
           /\ Usable(CalledParams[i].name)}

FirstFailing == CHOOSE i \in FailingParams : \A j \in FailingParams : i <= j

RequiredWithoutValue ==
    {i \in DOMAIN CalledParams :
        CalledParams[i].required /\ ~Given(CalledParams[i].name)}

IsMissingRequired(err) ==
    err.exc = "TypeError" /\ err.msg = "Missing required parameter '%s' for '%s'"

IsUnexpected(err) ==
    err.exc = "TypeError" /\ err.msg = "'%s' does not have parameters %r"

----------------------------------------------------------------------------
(* C1 *)

\* C1 as stated: every required parameter left without a value makes the
\* invocation fail with MissingRequiredParameter naming that parameter and
\* the nickname, with no transport call.
C1_AsStated ==
    IsCall =>
      \A i \in RequiredWithoutValue :
         /\ last.err = MissingRequiredParameter(CalledParams[i].name,
                                                CalledNickname)
         /\ wire = <<>>

\* C1, amended: an invocation that leaves a required parameter without a
\* value is rejected and the transport is not called; binding stops at the
\* first declared parameter it cannot bind, so the error is
\* MissingRequiredParameter naming the first required parameter without a
\* usable value, unless binding stops earlier at a parameter of unsupported
\* paramType that was given a value.
C1_MissingRequiredRejected ==
    (IsCall /\ RequiredWithoutValue # {}) =>
       /\ wire = <<>>
       /\ last.err # NoErr
       /\ last.ret = None
       /\ LET p == CalledParams[FirstFailing]
          IN  IF p.paramType \in SupportedParamTypes \/ ~Usable(p.name)
              THEN last.err = MissingRequiredParameter(p.name, CalledNickname)
              ELSE ~IsMissingRequired(last.err)

\* two required parameters are both left out (with an undeclared argument
\* supplied) and the error names the first of them
C1_Witness ==
    /\ IsCall
    /\ Cardinality(RequiredWithoutValue) >= 2
    /\ UndeclaredNames # {}
    /\ IsMissingRequired(last.err)
    /\ last.err.names = {CalledParams[1].name}
    /\ wire = <<>>

----------------------------------------------------------------------------
(* C2 *)

\* C2 as stated: an undeclared argument name makes the invocation fail with
\* UnexpectedParameter listing the names and the nickname, with no
\* transport call.
C2_AsStated ==
    (IsCall /\ UndeclaredNames # {}) =>
       /\ IsUnexpected(last.err)
       /\ UndeclaredNames \subseteq last.err.names
       /\ last.err.owner = CalledNickname
       /\ wire = <<>>

\* the argument names binding never consumes: the undeclared ones and the
\* declared ones given an empty or zero value
UnconsumedNames ==
    {k \in DOMAIN last.kwargs :
        k \in UndeclaredNames \/ last.kwargs[k] \in EmptyValues}

\* C2, amended: an invocation with an undeclared argument name is rejected
\* and the transport is not called; the error is UnexpectedParameter,
\* listing exactly the unconsumed names and the nickname, when binding the
\* declared parameters raised nothing, and otherwise the error that binding
\* raised first.
C2_UndeclaredRejected ==
    (IsCall /\ UndeclaredNames # {}) =>
       /\ wire = <<>>
       /\ last.ret = None
       /\ IF FailingParams = {}
          THEN last.err = UnexpectedParameter(UnconsumedNames, CalledNickname)
          ELSE last.err # NoErr /\ ~IsUnexpected(last.err)

\* an undeclared name is supplied next to a declared one that binds
C2_Witness ==
    /\ IsCall
    /\ FailingParams = {}
    /\ \E k \in DOMAIN last.kwargs : k \notin UndeclaredNames /\ Usable(k)
    /\ last.err = UnexpectedParameter({"bogus"}, CalledNickname)
    /\ wire = <<>>

----------------------------------------------------------------------------
(* C3 *)

DeclaredOfType(paramType) ==
    {i \in DOMAIN CalledParams : CalledParams[i].paramType = paramType}

IsScalar(v) == v.t \in {"int", "str"}

\* an operation with query parameters is invoked, every required parameter
\* is given a value, only declared names are given, and every value given
\* is a scalar
WellFormedScalarCall ==
    /\ IsCall
    /\ DeclaredOfType("query") # {}
    /\ \A i \in DOMAIN CalledParams :
          CalledParams[i].paramType \in SupportedParamTypes
    /\ RequiredWithoutValue = {}
    /\ UndeclaredNames = {}
    /\ \A k \in DOMAIN last.kwargs : IsScalar(last.kwargs[k])

GivenQueryNames ==
    {CalledParams[i].name : i \in {j \in DeclaredOfType("query") :
                                      Given(CalledParams[j].name)}}

\* C3 as stated: when all required parameters and only declared names are
\* supplied, the call is dispatched and its query parameter set maps exactly
\* the supplied query parameters to the supplied values, whatever the value.
C3_AsStated ==
    WellFormedScalarCall =>
       /\ last.err = NoErr
       /\ Len(wire) = 1
       /\ wire[1].params = [k \in GivenQueryNames |-> last.kwargs[k]]

----------------------------------------------------------------------------
(* C4 *)

\* the string form of a value bound to a path parameter
PathText(v) == IF v.t = "list" THEN Join(v.l) ELSE Unicode(v)

\* the value given for the placeholder token, if the token is one
PathParamOf(token) ==
    {i \in DeclaredOfType("path") :
        Placeholder(CalledParams[i].name) = token /\ Given(CalledParams[i].name)}

\* the template with each supplied path parameter's placeholder replaced by
\* the string form of its value, every other token left as it is
RECURSIVE Substituted(_)
Substituted(template) ==
    IF template = <<>> THEN <<>>
    ELSE (IF PathParamOf(Head(template)) # {}
          THEN PathText(last.kwargs[
                   CalledParams[CHOOSE i \in PathParamOf(Head(template)) : TRUE].name])
          ELSE <<Head(template)>>)
         \o Substituted(Tail(template))

\* C4 as stated: binding path parameters replaces their placeholders by the
\* string form of the values (a list comma-joined) and nothing else, and
\* the call is dispatched to that URI.
C4_AsStated ==
    (/\ IsCall
     /\ DeclaredOfType("path") # {}
     /\ \A i \in DOMAIN CalledParams :
           CalledParams[i].paramType \in SupportedParamTypes
     /\ RequiredWithoutValue = {}
     /\ UndeclaredNames = {}) =>
       /\ last.err = NoErr
       /\ Len(wire) = 1
       /\ wire[1].uri = Substituted(CalledOp._uri)

----------------------------------------------------------------------------
(* C5 *)

BodyOf(call) == IF call.entry = "request" THEN call.data ELSE None

HeadersOf(call) == IF call.entry = "request" THEN call.headers ELSE None

GivenBodyParams ==
    {i \in DeclaredOfType("body") : Given(CalledParams[i].name)}

BodyNames == {CalledParams[i].name : i \in DeclaredOfType("body")}

JsonHeaders == ("content-type" :> "application/json")

\* C5 as stated: a dispatched invocation carries each supplied body value
\* as its body with content-type application/json, the body parameter is
\* not a query parameter, and without a body value body and headers are
\* absent.
C5_AsStated ==
    (IsCall /\ Dispatched) =>
       /\ \A i \in GivenBodyParams :
             /\ BodyOf(wire[1]) = last.kwargs[CalledParams[i].name]
             /\ HeadersOf(wire[1]) = JsonHeaders
             /\ CalledParams[i].name \notin DOMAIN wire[1].params
       /\ GivenBodyParams = {} =>
             BodyOf(wire[1]) = None /\ HeadersOf(wire[1]) = None

LastGivenBody ==
    CHOOSE i \in GivenBodyParams : \A j \in GivenBodyParams : j <= i

\* C5, amended: an invocation dispatched through the request entry point
\* carries the value of the last declared body parameter that was supplied
\* as its body, with content-type application/json, and no body parameter
\* among the query parameters; without a body value, body and headers are
\* absent.  An invocation dispatched through ws_connect passes the URI and
\* the query parameters only: a supplied body value and the header are
\* dropped.
C5_BodyAndHeaders ==
    (IsCall /\ Dispatched) =>
       /\ BodyNames \cap DOMAIN wire[1].params = {}
       /\ wire[1].entry = "request" =>
             IF GivenBodyParams # {}
             THEN /\ wire[1].data = last.kwargs[CalledParams[LastGivenBody].name]
                  /\ wire[1].headers = JsonHeaders
             ELSE wire[1].data = None /\ wire[1].headers = None
       /\ wire[1].entry = "ws_connect" =>
             DOMAIN wire[1] = {"entry", "client", "uri", "params"}

\* a request is dispatched with a body value and a query parameter
C5_Witness ==
    /\ IsCall
    /\ Dispatched
    /\ wire[1].entry = "request"
    /\ GivenBodyParams # {}
    /\ wire[1].data = PyList(<<PyStr(<<"a">>), PyInt(7)>>)
    /\ wire[1].headers = JsonHeaders
    /\ DOMAIN wire[1].params # {}

----------------------------------------------------------------------------
(* C6 *)

\* the scheme of a URI: what stands before "://"
RECURSIVE Scheme(_)
Scheme(uri) ==
    IF uri = <<>> \/ Head(uri) = "://" THEN ""
    ELSE Head(uri) \o Scheme(Tail(uri))

\* what binding leaves for the dispatch
Bound == Bind(CalledOp, last.kwargs)

\* C6 as stated: a bound invocation makes exactly one transport call; a
\* websocket operation calls ws_connect with the query parameters and a URI
\* of scheme ws (leading http replaced, nothing else changed); any other
\* operation calls request with (method, bound URI, query parameters, body,
\* headers), its scheme as stored.
C6_AsStated ==
    (IsCall /\ last.err = NoErr) =>
       /\ Len(wire) = 1
       /\ IF CalledOp._json.is_websocket
          THEN /\ wire[1].entry = "ws_connect"
               /\ wire[1].params = Bound.params
               /\ Scheme(wire[1].uri) = "ws"
               /\ Tail(wire[1].uri) = Tail(Bound.uri)
          ELSE /\ wire[1].entry = "request"
               /\ wire[1] = [entry |-> "request",
                             client |-> CalledOp._http_client,
                             method |-> CalledOp._json.method,
                             uri |-> Bound.uri, params |-> Bound.params,
                             data |-> Bound.data, headers |-> Bound.headers]
               /\ Scheme(wire[1].uri) = Scheme(CalledOp._uri)

\* C6, amended: as stated, except that the websocket URI is the bound URI
\* with a leading "http" replaced by "ws" and nothing else changed, so its
\* scheme is ws for an http URI and wss for an https URI.
C6_DispatchSelection ==
    (IsCall /\ last.err = NoErr) =>
       /\ Len(wire) = 1
       /\ IF CalledOp._json.is_websocket
          THEN /\ wire[1].entry = "ws_connect"
               /\ wire[1].params = Bound.params
               /\ Head(Bound.uri) = "http" => Head(wire[1].uri) = "ws"
               /\ Head(Bound.uri) # "http" => Head(wire[1].uri) = Head(Bound.uri)
               /\ Tail(wire[1].uri) = Tail(Bound.uri)
               /\ Scheme(Bound.uri) = "http" => Scheme(wire[1].uri) = "ws"
               /\ Scheme(Bound.uri) = "https" => Scheme(wire[1].uri) = "wss"
          ELSE /\ wire[1].entry = "request"
               /\ wire[1] = [entry |-> "request",
                             client |-> CalledOp._http_client,
                             method |-> CalledOp._json.method,
                             uri |-> Bound.uri, params |-> Bound.params,
                             data |-> Bound.data, headers |-> Bound.headers]
               /\ Scheme(wire[1].uri) = Scheme(CalledOp._uri)

\* a websocket operation stored with an http URI is dispatched to ws
C6_Witness ==
    /\ IsCall
    /\ CalledOp._json.is_websocket
    /\ Scheme(CalledOp._uri) = "http"
    /\ Len(wire) = 1
    /\ wire[1].entry = "ws_connect"
    /\ wire[1].uri = <<"ws", "://", "host", "/events">>
    /\ DOMAIN wire[1].params # {}

----------------------------------------------------------------------------
(* C7 *)

\* C7 as stated: a value supplied for a parameter of unsupported paramType
\* makes the invocation fail with an AssertionError, with no transport call
\* (taken here for the values that are not empty or zero).
C7_AsStated ==
    (/\ IsCall
     /\ \E i \in DOMAIN CalledParams :
           /\ CalledParams[i].paramType \notin SupportedParamTypes
           /\ Usable(CalledParams[i].name)) =>
       /\ last.err.exc = "AssertionError"
       /\ wire = <<>>

----------------------------------------------------------------------------
(* C8 *)

Listing == constructed._api_docs

\* the last entry of the listing with the resource name
LastEntryNamed(name) ==
    LET hits == {i \in DOMAIN Listing.apis : Listing.apis[i].name = name}
    IN  Listing.apis[CHOOSE i \in hits : \A j \in hits : j <= i]

ResourceNames == {Listing.apis[i].name : i \in DOMAIN Listing.apis}

\* positions <<api, operation>> of the declaration holding the nickname
NicknameHits(decl, nickname) ==
    {<<a, o>> \in (DOMAIN decl.apis) \X (1..3) :
        /\ o \in DOMAIN decl.apis[a].operations
        /\ decl.apis[a].operations[o].nickname = nickname}

Before(x, y) == x[1] < y[1] \/ (x[1] = y[1] /\ x[2] <= y[2])

LastHit(decl, nickname) ==
    CHOOSE x \in NicknameHits(decl, nickname) :
       \A y \in NicknameHits(decl, nickname) : Before(y, x)

\* the base path an operation of the declaration is resolved against
EffectiveBase(decl) ==
    IF decl.basePath = RootBasePath THEN Listing.basePath ELSE decl.basePath

----------------------------------------------------------------------------
(* C9 *)

\* C9: a dispatched invocation returns the transport's response with a
\* value field; the value is the payload parsed against the declared return
\* shape with the owning resource's models exactly when the response is
\* successful and has a payload, and None otherwise; the parse is invoked
\* once in the first case and never otherwise, nor when nothing is
\* dispatched.
C9_ResultTyping ==
    IsCall =>
       IF Dispatched
       THEN /\ last.ret.ok = last.response.ok
            /\ last.ret.text = last.response.text
            /\ IF last.response.ok /\ last.response.text = "payload"
               THEN /\ last.parses =
                          <<[json |-> "payload", type |-> CalledOp._json.type,
                             models |-> constructed._resources[last.resource].models]>>
                    /\ last.ret.value =
                          ParseObject("payload", CalledOp._json.type,
                                      constructed._resources[last.resource].models)
               ELSE last.parses = <<>> /\ last.ret.value = None
       ELSE last.parses = <<>> /\ last.ret = None

\* a successful response with a payload is returned with its typed value,
\* parsed once with the models of the resource
C9_Witness ==
    /\ IsCall
    /\ Dispatched
    /\ last.response = [ok |-> TRUE, text |-> "payload"]
    /\ last.ret.value = ParseObject("payload", "Item",
                                    [Item |-> CreateModelType("ItemSchema"),
                                     Order |-> CreateModelType("OrderSchema")])
    /\ Len(last.parses) = 1

----------------------------------------------------------------------------
(* C10 *)

AllOperations(c) ==
    {c._resources[r]._operations[n] :
        <<r, n>> \in {x \in (DOMAIN c._resources) \X
                              (ItemNames \cup {"addPet", "getItem", "events",
                                               "upload", "patchPet"}) :
                         x[2] \in DOMAIN c._resources[x[1]]._operations}}

\* C10: whatever invocations have been made, dispatched or rejected, the
\* built Client, its Resources and Operations (URI templates, declarations,
\* transport, models, name mappings) are as constructed; the transport call
\* of an invocation is the one the Operation as constructed makes for the
\* same arguments; every Operation holds the Client's transport, and that
\* is the transport called.
C10_BuiltObjectsUnchanged ==
    /\ client = constructed
    /\ \A op \in AllOperations(client) :
          op._http_client = constructed._http_client
    /\ IsCall =>
          /\ wire = OperationCall(CalledOp, last.kwargs, last.response).calls
          /\ \A i \in DOMAIN wire : wire[i].client = constructed._http_client

\* a path parameter was bound and dispatched, and the stored template still
\* has its placeholder
C10_Witness ==
    /\ IsCall
    /\ Dispatched
    /\ wire[1].uri = <<"http", "://", "host", "/pet/", "42">>
    /\ client.attrs["pet"].attrs["getPet"]._uri =
          <<"http", "://", "host", "/pet/", "{id}">>
    /\ client._resources["pet"]._operations["getPet"]._uri =
          <<"http", "://", "host", "/pet/", "{id}">>

====
